---- MODULE Spec2Model ----
(***************************************************************************)
(* State-machine model of torchrec/inference/modules.py: the three setup   *)
(* rewrites of a module graph (quantize_dense, quantize_inference_model,   *)
(* shard_quant_model) and the sharding planner shard_quant_model drives.   *)
(***************************************************************************)
EXTENDS Integers, Sequences, FiniteSets, TLC

(***************************************************************************)
(* Bounds of the model.                                                    *)
(***************************************************************************)
MaxWorldSize == 2
MaxInputs == 1

(***************************************************************************)
(* Strings.  Module names are strings; the operations the code applies to  *)
(* them ("table" in name, split("."), comparison) are computed on their    *)
(* characters.                                                             *)
(***************************************************************************)
Chars(s) ==
  CASE s = "ebc" -> <<"e","b","c">>
    [] s = "embedding_bags" -> <<"e","m","b","e","d","d","i","n","g","_","b","a","g","s">>
    [] s = "table_A" -> <<"t","a","b","l","e","_","A">>
    [] s = "table_B" -> <<"t","a","b","l","e","_","B">>
    [] s = "table_C" -> <<"t","a","b","l","e","_","C">>
    [] s = "table_group" -> <<"t","a","b","l","e","_","g","r","o","u","p">>
    [] s = "linear" -> <<"l","i","n","e","a","r">>
    [] s = "dense" -> <<"d","e","n","s","e">>
    [] s = "table" -> <<"t","a","b","l","e">>
    [] OTHER -> <<>>

\* Code points in increasing order, for the characters used above
Alphabet == <<".", "A", "B", "C", "_", "a", "b", "c", "d", "e", "g", "i",
              "l", "m", "n", "o", "p", "r", "s", "t", "u">>

Ord(c) == CHOOSE i \in 1..Len(Alphabet) : Alphabet[i] = c

RECURSIVE StrLess(_, _)
StrLess(a, b) ==
  IF b = <<>> THEN FALSE
  ELSE IF a = <<>> THEN TRUE
  ELSE IF Ord(Head(a)) # Ord(Head(b)) THEN Ord(Head(a)) < Ord(Head(b))
  ELSE StrLess(Tail(a), Tail(b))

\* sub in s
Contains(sub, s) ==
  \E i \in 1..(Len(s) - Len(sub) + 1) : SubSeq(s, i, i + Len(sub) - 1) = sub

\* the fully-qualified name of a path, as characters: components joined by "."
RECURSIVE Dotted(_)
Dotted(path) ==
  IF path = <<>> THEN <<>>
  ELSE IF Len(path) = 1 THEN Chars(path[1])
  ELSE Chars(path[1]) \o <<".">> \o Dotted(Tail(path))

\* name.split(".")[-1]: module names hold no ".", so the last component
LastComponent(path) == IF path = <<>> THEN "" ELSE path[Len(path)]

Range(s) == {s[i] : i \in 1..Len(s)}

IsPrefix(p, q) == Len(p) <= Len(q) /\ SubSeq(q, 1, Len(p)) = p

(***************************************************************************)
(* Optional values: <<>> is None, <<v>> is v.                              *)
(***************************************************************************)
None == <<>>
Some(v) == <<v>>
IsNone(o) == o = <<>>
Get(o) == o[1]

(***************************************************************************)
(* State.  A module graph is a function from paths (sequences of child     *)
(* names, <<>> the root) to the type of the module registered there.       *)
(***************************************************************************)
VARIABLES
  fn,                  \* the entry point this behaviour runs
  pc,                  \* position in it
  model,               \* the module graph being rewritten
  orig,                \* the module graph at entry (history)
  error,               \* "none", or the exception that ended the call
  \* shard_quant_model
  world_size, compute_device, device_memory_size, constraints_arg,
  cuda_available,      \* torch.cuda.is_available()
  cost, perf,          \* estimator outputs: storage per table, rank per sharding type
  constraints,         \* the local constraints after line 439
  topology,            \* trec_dist.planner.Topology, None before line 450
  device_queries,      \* calls of torch.cuda.get_device_properties
  plan_calls,          \* calls of EmbeddingShardingPlanner.plan
  queue, device_used, proposal, error_table,   \* the planner's working state
  model_plan,          \* the ShardingPlan, None until plan() returns
  result,              \* the returned (model, model_plan), None until line 491
  \* quantize_inference_model
  quantization_mapping, packaged, additional_qconfig_spec_keys,
  additional_mapping,
  todo,                \* what model.named_modules() has still to yield
  swapped,             \* paths re-registered by _quantize_fp_module (history)
  \* quantize_dense and the forward calls after it
  dtype, additional_embedding_module_type, reassign,
  children,            \* what module.named_children() has still to yield
  params,              \* per module, the dtype of its floating-point parameters
  hooks,               \* per module, its forward pre-hooks
  call                 \* the last forward call: module, inputs given and received

shardVars == <<world_size, compute_device, device_memory_size, constraints_arg,
               cuda_available, cost, perf, constraints, topology,
               device_queries, plan_calls, queue, device_used, proposal,
               error_table, model_plan, result>>

quantVars == <<quantization_mapping, packaged, additional_qconfig_spec_keys,
               additional_mapping, todo, swapped>>

denseVars == <<dtype, additional_embedding_module_type, reassign, children,
               params, hooks, call>>

vars == <<fn, pc, model, orig, error, shardVars, quantVars, denseVars>>

shardInputs == <<world_size, compute_device, device_memory_size,
                 constraints_arg, cuda_available, cost, perf>>

(***************************************************************************)
(* shard_quant_model: inputs.                                              *)
(***************************************************************************)
TableNames == {"table_A", "table_B", "table_C"}
CostValues == {40, 50, 60}
MemoryOverrides == {50, 100}
DeviceTotalMemory == {200}
ShardingTypes == {"table_wise", "row_wise"}

\* a quantized model: one QuantEmbeddingBagCollection holding the tables,
\* a dense layer, and optionally a container whose name holds "table"
ShardGraph(tabs, grp) ==
  LET base == {<<>>, <<"ebc">>, <<"ebc", "embedding_bags">>, <<"dense">>}
      tps == {<<"ebc", "embedding_bags", t>> : t \in tabs}
      gps == IF grp THEN {<<"table_group">>, <<"table_group", "linear">>} ELSE {}
  IN [p \in base \cup tps \cup gps |->
        IF p = <<>> THEN "Model"
        ELSE IF p = <<"ebc">> THEN "QuantEmbeddingBagCollection"
        ELSE IF p = <<"ebc", "embedding_bags">> THEN "ModuleDict"
        ELSE IF p \in tps THEN "Table"
        ELSE IF p = <<"table_group">> THEN "Sequential"
        ELSE "Linear"]

\* the tables the planner's enumerator finds in a graph, by name
Tables(g) == {LastComponent(p) : p \in {q \in DOMAIN g : g[q] = "Table"}}

(***************************************************************************)
(* shard_quant_model, lines 427-439: the constraints.                      *)
(***************************************************************************)
DefaultConstraint ==
  [sharding_types |-> {"table_wise"}, compute_kernels |-> {"quant"}]

\* "table" in name
Recognized(g) == {p \in DOMAIN g : Contains(Chars("table"), Dotted(p))}

DefaultConstraints(g) ==
  LET table_fqns == {LastComponent(p) : p \in Recognized(g)}
  IN [name \in table_fqns |-> DefaultConstraint]

ResolveConstraintsEmptyAsNone(arg, g) ==
  IF IsNone(arg) \/ DOMAIN Get(arg) = {} THEN DefaultConstraints(g) ELSE Get(arg)

ResolvedConstraints(arg, g) ==
  IF IsNone(arg) THEN DefaultConstraints(g) ELSE Get(arg)

(***************************************************************************)
(* shard_quant_model, lines 441-448: the capacity.  queried is the result  *)
(* of the device query, used only on the branch that makes it.             *)
(***************************************************************************)
QueriesDevice(dms, avail, dev) == IsNone(dms) /\ avail /\ dev = "cuda"

HbmCapQueryFirst(dms, avail, dev, queried) ==
  IF avail /\ dev = "cuda" THEN Some(queried)
  ELSE IF ~IsNone(dms) THEN dms
  ELSE None

HbmCap(dms, avail, dev, queried) ==
  IF ~IsNone(dms) THEN dms
  ELSE IF avail /\ dev = "cuda" THEN Some(queried)
  ELSE None

\* the planner's own margin of 15 percent, were none configured
ReservationPercentageOmitted == 3 * 5

\* FixedPercentageStorageReservation(percentage=0.0), in percent
ReservationPercentage == 0

(***************************************************************************)
(* The planner (EmbeddingShardingPlanner.plan with the enumerator and the  *)
(* estimators shard_quant_model hands it): largest-first greedy placement. *)
(***************************************************************************)
Devices(topo) == 0..(topo.world_size - 1)

\* storage of one shard: row-wise splits the rows over the devices
ShardCost(c, st, topo) ==
  IF st = "row_wise"
  THEN (c + topo.world_size - 1) \div topo.world_size
  ELSE c

\* the devices a candidate touches when its first device is d
Ranks(st, d, topo) == IF st = "row_wise" THEN Devices(topo) ELSE {d}

\* d stays within capacity * (1 - reservation) with amount more on it
Fits(used, d, amount, topo) ==
  \/ IsNone(topo.hbm_cap)
  \/ (used[d] + amount) * 100 <= Get(topo.hbm_cap) * (100 - ReservationPercentage)

\* the first device of a feasible assignment of candidate st, or none
FirstDevice(c, st, used, topo) ==
  LET ok == IF st = "row_wise"
            THEN IF \A d \in Devices(topo) : Fits(used, d, ShardCost(c, st, topo), topo)
                 THEN {0} ELSE {}
            ELSE {d \in Devices(topo) : Fits(used, d, c, topo)}
  IN IF ok = {} THEN None
     ELSE Some(CHOOSE d \in ok : \A e \in ok : d <= e)

\* the candidates of a table: the sharding types its constraint allows
Candidates(t, cons) ==
  IF t \in DOMAIN cons /\ "quant" \in cons[t].compute_kernels
  THEN cons[t].sharding_types \cap ShardingTypes
  ELSE {}

Feasible(t, cons, c, used, topo) ==
  {st \in Candidates(t, cons) : ~IsNone(FirstDevice(c, st, used, topo))}

\* the lowest-performance-cost feasible candidate
Best(cands, pf) == CHOOSE st \in cands : \A o \in cands : pf[st] <= pf[o]

BeforeCostOnly(a, b, c) == c[a] > c[b]

\* a is placed before b: larger storage first, ties by name
Before(a, b, c) ==
  \/ c[a] > c[b]
  \/ c[a] = c[b] /\ StrLess(Chars(a), Chars(b))

RECURSIVE Insert(_, _, _)
Insert(x, sorted, c) ==
  IF sorted = <<>> THEN <<x>>
  ELSE IF Before(x, Head(sorted), c) THEN <<x>> \o sorted
  ELSE <<Head(sorted)>> \o Insert(x, Tail(sorted), c)

RECURSIVE SortTables(_, _)
SortTables(enum, c) ==
  IF enum = <<>> THEN <<>>
  ELSE Insert(enum[Len(enum)], SortTables(SubSeq(enum, 1, Len(enum) - 1), c), c)

\* the orders in which a set of tables can be enumerated
Enumerations(tabs) ==
  {q \in [1..Cardinality(tabs) -> tabs] : \A i, j \in DOMAIN q : i # j => q[i] # q[j]}

\* one step of the planner on table t: the new (used, proposal), or None
Place(t, cons, c, pf, used, prop, topo) ==
  LET feas == Feasible(t, cons, c[t], used, topo)
  IN IF feas = {} THEN None
     ELSE LET st == Best(feas, pf)
              d == Get(FirstDevice(c[t], st, used, topo))
              rk == Ranks(st, d, topo)
              amount == ShardCost(c[t], st, topo)
          IN Some([used |-> [e \in DOMAIN used |->
                               IF e \in rk THEN used[e] + amount ELSE used[e]],
                   proposal |-> [u \in DOMAIN prop \cup {t} |->
                               IF u = t THEN [sharding_type |-> st, ranks |-> rk]
                               ELSE prop[u]]])

EmptyMap == [x \in {} |-> 0]

\* the whole plan for an order of placement, or None when a table cannot be placed
RECURSIVE PlanFrom(_, _, _, _, _, _, _)
PlanFrom(q, cons, c, pf, used, prop, topo) ==
  IF q = <<>> THEN Some(prop)
  ELSE LET r == Place(Head(q), cons, c, pf, used, prop, topo)
       IN IF IsNone(r) THEN None
          ELSE PlanFrom(Tail(q), cons, c, pf, Get(r).used, Get(r).proposal, topo)

PlanOf(enum, cons, c, pf, topo) ==
  PlanFrom(SortTables(enum, c), cons, c, pf, [d \in Devices(topo) |-> 0], EmptyMap, topo)

\* storage the plan puts on device d
RECURSIVE SumOver(_, _, _, _, _)
SumOver(ts, plan, c, d, topo) ==
  IF ts = {} THEN 0
  ELSE LET t == CHOOSE x \in ts : TRUE
       IN (IF d \in plan[t].ranks
           THEN ShardCost(c[t], plan[t].sharding_type, topo) ELSE 0)
          + SumOver(ts \ {t}, plan, c, d, topo)

Load(plan, c, d, topo) == SumOver(DOMAIN plan, plan, c, d, topo)

(***************************************************************************)
(* _shard_modules: every module the plan covers is replaced, under its     *)
(* name, by its sharded equivalent.                                        *)
(***************************************************************************)
ShardedType(ty) ==
  IF ty = "QuantEmbeddingBagCollection" THEN "ShardedQuantEmbeddingBagCollection"
  ELSE ty

Sharded(g, plan) ==
  [p \in DOMAIN g |->
     IF \E t \in DOMAIN plan : p \o <<"embedding_bags", t>> \in DOMAIN g
     THEN ShardedType(g[p]) ELSE g[p]]

(***************************************************************************)
(* shard_quant_model, step by step.                                        *)
(***************************************************************************)
IdleShard ==
  /\ world_size = 1 /\ compute_device = "cuda" /\ device_memory_size = None
  /\ constraints_arg = None /\ cuda_available = FALSE
  /\ cost = EmptyMap /\ perf = EmptyMap
  /\ constraints = None /\ topology = None
  /\ device_queries = 0 /\ plan_calls = 0
  /\ queue = <<>> /\ device_used = EmptyMap /\ proposal = EmptyMap
  /\ error_table = None /\ model_plan = None /\ result = None

ConstraintMaps(tabs) ==
  [tabs -> {[sharding_types |-> sts, compute_kernels |-> {"quant"}] :
              sts \in (SUBSET ShardingTypes) \ {{}}}]

StartShard ==
  /\ fn = "shard" /\ pc = "entry" /\ error = "none"
  /\ \E tabs \in SUBSET TableNames, grp \in BOOLEAN :
       /\ model = ShardGraph(tabs, grp)
       /\ cost \in [tabs -> CostValues]
       /\ constraints_arg \in {None} \cup {Some(m) : m \in ConstraintMaps(tabs)}
  /\ orig = model
  /\ world_size \in 1..MaxWorldSize
  /\ compute_device \in {"cuda", "cpu"}
  /\ device_memory_size \in {None} \cup {Some(m) : m \in MemoryOverrides}
  /\ cuda_available \in BOOLEAN
  /\ perf \in {f \in [ShardingTypes -> 1..2] : f["table_wise"] # f["row_wise"]}
  /\ constraints = None /\ topology = None
  /\ device_queries = 0 /\ plan_calls = 0
  /\ queue = <<>> /\ device_used = EmptyMap /\ proposal = EmptyMap
  /\ error_table = None /\ model_plan = None /\ result = None

\* lines 427-439
ResolveConstraints ==
  /\ fn = "shard" /\ pc = "entry"
  /\ constraints' = Some(ResolvedConstraints(constraints_arg, model))
  /\ pc' = "capacity"
  /\ UNCHANGED <<fn, model, orig, error, shardInputs, topology, device_queries,
                 plan_calls, queue, device_used, proposal, error_table,
                 model_plan, result, quantVars, denseVars>>

MakeTopology(cap) ==
  [world_size |-> world_size, compute_device |-> compute_device,
   local_world_size |-> world_size, hbm_cap |-> cap]

\* lines 441-455; the device query either answers or raises
ResolveCapacity ==
  /\ fn = "shard" /\ pc = "capacity"
  /\ \/ /\ QueriesDevice(device_memory_size, cuda_available, compute_device)
        /\ device_queries' = device_queries + 1
        /\ \/ \E total_memory \in DeviceTotalMemory :
                /\ topology' = Some(MakeTopology(
                     HbmCap(device_memory_size, cuda_available, compute_device,
                            total_memory)))
                /\ pc' = "plan"
                /\ error' = error
           \/ /\ pc' = "failed"
              /\ error' = "RuntimeError"
              /\ topology' = topology
     \/ /\ ~QueriesDevice(device_memory_size, cuda_available, compute_device)
        /\ \E total_memory \in DeviceTotalMemory :
             topology' = Some(MakeTopology(
               HbmCap(device_memory_size, cuda_available, compute_device,
                      total_memory)))
        /\ pc' = "plan"
        /\ UNCHANGED <<device_queries, error>>
  /\ UNCHANGED <<fn, model, orig, shardInputs, constraints, plan_calls, queue,
                 device_used, proposal, error_table, model_plan, result,
                 quantVars, denseVars>>

\* lines 457-478: plan() starts; the enumerator yields the tables in some order
PlannerEnumerate ==
  /\ fn = "shard" /\ pc = "plan"
  /\ plan_calls' = plan_calls + 1
  /\ \E enum \in Enumerations(Tables(model)) : queue' = SortTables(enum, cost)
  /\ device_used' = [d \in Devices(Get(topology)) |-> 0]
  /\ proposal' = EmptyMap
  /\ pc' = "place"
  /\ UNCHANGED <<fn, model, orig, error, shardInputs, constraints, topology,
                 device_queries, error_table, model_plan, result,
                 quantVars, denseVars>>

\* plan(): the next table is placed
PlannerPlace ==
  /\ fn = "shard" /\ pc = "place" /\ queue # <<>>
  /\ LET r == Place(Head(queue), Get(constraints), cost, perf, device_used,
                    proposal, Get(topology))
     IN /\ ~IsNone(r)
        /\ device_used' = Get(r).used
        /\ proposal' = Get(r).proposal
  /\ queue' = Tail(queue)
  /\ UNCHANGED <<fn, pc, model, orig, error, shardInputs, constraints, topology,
                 device_queries, plan_calls, error_table, model_plan, result,
                 quantVars, denseVars>>

\* plan(): no device combination admits the next table
PlannerFail ==
  /\ fn = "shard" /\ pc = "place" /\ queue # <<>>
  /\ IsNone(Place(Head(queue), Get(constraints), cost, perf, device_used,
                  proposal, Get(topology)))
  /\ error' = "CapacityExceededError"
  /\ error_table' = Some(Head(queue))
  /\ pc' = "failed"
  /\ UNCHANGED <<fn, model, orig, shardInputs, constraints, topology,
                 device_queries, plan_calls, queue, device_used, proposal,
                 model_plan, result, quantVars, denseVars>>

\* plan() returns
PlannerReturn ==
  /\ fn = "shard" /\ pc = "place" /\ queue = <<>>
  /\ model_plan' = Some(proposal)
  /\ pc' = "shard"
  /\ UNCHANGED <<fn, model, orig, error, shardInputs, constraints, topology,
                 device_queries, plan_calls, queue, device_used, proposal,
                 error_table, result, quantVars, denseVars>>

\* lines 480-491
ShardModules ==
  /\ fn = "shard" /\ pc = "shard"
  /\ model' = Sharded(model, Get(model_plan))
  /\ result' = Some([model |-> model', model_plan |-> Get(model_plan)])
  /\ pc' = "done"
  /\ UNCHANGED <<fn, orig, error, shardInputs, constraints, topology,
                 device_queries, plan_calls, queue, device_used, proposal,
                 error_table, model_plan, quantVars, denseVars>>

IdleQuant ==
  /\ quantization_mapping = None /\ packaged = FALSE
  /\ additional_qconfig_spec_keys = <<>> /\ additional_mapping = EmptyMap
  /\ todo = <<>> /\ swapped = {}

IdleDense ==
  /\ dtype = "half" /\ additional_embedding_module_type = {}
  /\ reassign = EmptyMap /\ children = <<>>
  /\ params = EmptyMap /\ hooks = EmptyMap /\ call = None

InitShard == StartShard /\ IdleQuant /\ IdleDense

NextShard ==
  \/ ResolveConstraints
  \/ ResolveCapacity
  \/ PlannerEnumerate
  \/ PlannerPlace
  \/ PlannerFail
  \/ PlannerReturn
  \/ ShardModules

SpecShard == InitShard /\ [][NextShard]_vars

(***************************************************************************)
(* Properties of shard_quant_model.                                        *)
(***************************************************************************)
\* the capacity the caller configured: the override, else what the topology holds
ConfiguredCapacity ==
  IF ~IsNone(device_memory_size) THEN device_memory_size
  ELSE Get(topology).hbm_cap

\* C1: in every returned Plan, on every device, the storage of the shards
\* assigned to it is at most capacity * (1 - 0.0), for a bounded capacity.
C1_CapacityInvariant ==
  (~IsNone(result) /\ ~IsNone(ConfiguredCapacity)) =>
     \A d \in 0..(world_size - 1) :
        Load(Get(result).model_plan, cost, d, Get(topology)) * 100
          <= Get(ConfiguredCapacity) * (100 - 0)

C1_Witness ==
  /\ ~IsNone(result)
  /\ ~IsNone(ConfiguredCapacity)
  /\ Cardinality(DOMAIN Get(result).model_plan) >= 2
  /\ \E d \in 0..(world_size - 1) :
        Load(Get(result).model_plan, cost, d, Get(topology))
          = Get(ConfiguredCapacity)

\* C2: the outcome of planning is the same for every order in which the
\* tables are enumerated, and tables are ordered by storage, largest first,
\* ties by name.
C2_Deterministic ==
  /\ pc = "place" =>
       \A i, j \in 1..Len(queue) :
          i < j => \/ cost[queue[i]] > cost[queue[j]]
                   \/ /\ cost[queue[i]] = cost[queue[j]]
                      /\ StrLess(Chars(queue[i]), Chars(queue[j]))
  /\ (~IsNone(model_plan) \/ error = "CapacityExceededError") =>
       \A enum \in Enumerations(Tables(orig)) :
          PlanOf(enum, Get(constraints), cost, perf, Get(topology)) = model_plan

C2_Witness ==
  /\ ~IsNone(model_plan)
  /\ \E a, b \in DOMAIN Get(model_plan) :
       /\ a # b
       /\ cost[a] = cost[b]
       /\ Get(model_plan)[a].ranks # Get(model_plan)[b].ranks

\* a table no candidate of which fits an empty device of the configured capacity
Oversized(t) ==
  /\ ~IsNone(ConfiguredCapacity)
  /\ \A st \in Candidates(t, Get(constraints)) :
       ShardCost(cost[t], st, Get(topology)) * 100
         > Get(ConfiguredCapacity) * (100 - 0)

PlanningOver == pc \in {"shard", "done"} \/ (pc = "failed" /\ plan_calls > 0)

C6_DefaultConstraints ==
  ~IsNone(constraints) =>
     IF IsNone(constraints_arg)
     THEN /\ \A p \in DOMAIN orig :
               Contains(Chars("table"), Dotted(p)) =>
                  /\ LastComponent(p) \in DOMAIN Get(constraints)
                  /\ Get(constraints)[LastComponent(p)] =
                       [sharding_types |-> {"table_wise"},
                        compute_kernels |-> {"quant"}]
          /\ \A k \in DOMAIN Get(constraints) :
               \E p \in DOMAIN orig :
                  Contains(Chars("table"), Dotted(p)) /\ LastComponent(p) = k
     ELSE constraints = constraints_arg

C6_Witness ==
  /\ ~IsNone(constraints)
  /\ IsNone(constraints_arg)
  /\ "linear" \in DOMAIN Get(constraints)
  /\ "table_B" \in DOMAIN Get(constraints)
  /\ "dense" \notin DOMAIN Get(constraints)

CapacityResolved == pc \notin {"entry", "capacity"}

\* C7 as stated: the capacity is the override when supplied, and is queried
\* from the device whenever the override is omitted.
C7_QueriedWhenOmitted ==
  CapacityResolved =>
     IF ~IsNone(device_memory_size)
     THEN Get(topology).hbm_cap = device_memory_size
     ELSE /\ device_queries = 1
          /\ \/ error = "RuntimeError" /\ pc = "failed"
             \/ ~IsNone(Get(topology).hbm_cap)

\* C7 amended: the capacity is the override when supplied; when omitted it is
\* queried only if CUDA is available and the compute device is "cuda" (a
\* failing query fails the call), and is otherwise None with no query made.
C7_Capacity ==
  CapacityResolved =>
     IF ~IsNone(device_memory_size)
     THEN Get(topology).hbm_cap = device_memory_size /\ device_queries = 0
     ELSE IF cuda_available /\ compute_device = "cuda"
     THEN /\ device_queries = 1
          /\ \/ error = "RuntimeError" /\ pc = "failed" /\ IsNone(topology)
                /\ result = None
             \/ /\ ~IsNone(topology)
                /\ ~IsNone(Get(topology).hbm_cap)
                /\ Get(Get(topology).hbm_cap) \in DeviceTotalMemory
     ELSE device_queries = 0 /\ Get(topology).hbm_cap = None

C7_Witness ==
  /\ pc = "done"
  /\ IsNone(device_memory_size)
  /\ device_queries = 1
  /\ ~IsNone(Get(topology).hbm_cap)

TableWiseOnly ==
  \A t \in Tables(orig) : Get(constraints)[t].sharding_types = {"table_wise"}

Scenario ==
  /\ Tables(orig) = {"table_A", "table_B", "table_C"}
  /\ cost = [t \in Tables(orig) |->
               IF t = "table_A" THEN 60 ELSE IF t = "table_B" THEN 50 ELSE 40]
  /\ world_size = 2
  /\ device_memory_size = Some(100)

\* C8: placement is largest storage first, each table on a device that stays
\* within capacity; 2 devices of 100 with A(60), B(50), C(40) table-wise give
\* A and C on device 0, B on device 1, loads 100 and 50.
C8_Scenario ==
  /\ pc = "place" =>
       /\ \A t \in DOMAIN proposal : \A u \in Range(queue) : cost[t] >= cost[u]
       /\ \A d \in DOMAIN device_used :
            ~IsNone(Get(topology).hbm_cap) =>
               device_used[d] <= Get(Get(topology).hbm_cap)
  /\ (Scenario /\ PlanningOver /\ TableWiseOnly) =>
       /\ ~IsNone(model_plan)
       /\ Get(model_plan) =
            [t \in Tables(orig) |->
               [sharding_type |-> "table_wise",
                ranks |-> IF t = "table_B" THEN {1} ELSE {0}]]
       /\ Load(Get(model_plan), cost, 0, Get(topology)) = 100
       /\ Load(Get(model_plan), cost, 1, Get(topology)) = 50

C8_Witness == pc = "done" /\ Scenario /\ TableWiseOnly

(***************************************************************************)
(* quantize_inference_model: classes, type names and module graphs.        *)
(* A class is its torch package ("" when imported normally) and its name;  *)
(* the same class loaded from a torch package is another class object.     *)
(***************************************************************************)
Class(pkg, name) == [package |-> pkg, name |-> name]

TorchPackagePrefixes == {"<torch_package_0>"}

\* torch.typename(m), split at its first "."
Typename(cls) ==
  IF cls.package = "" THEN <<cls.name>> ELSE <<cls.package, cls.name>>

\* trim_torch_package_prefix_from_typename, lines 70-74
trim_torch_package_prefix_from_typename(typename) ==
  IF Head(typename) \in TorchPackagePrefixes THEN Tail(typename) ELSE typename

\* lines 100-107
DEFAULT_QUANT_MAPPING ==
  [t \in {<<"EmbeddingBagCollection">>, <<"EmbeddingCollection">>} |->
     IF t = <<"EmbeddingBagCollection">>
     THEN Class("", "QuantEmbeddingBagCollection")
     ELSE Class("", "QuantEmbeddingCollection")]

\* lines 111-113
FEATURE_PROCESSED_EBC_TYPE == <<"FeatureProcessedEmbeddingBagCollection">>

\* the modules a module of a class owns, by relative path
Subtree(cls) ==
  LET n == cls.name
      k == cls.package
  IN IF n = "EmbeddingBagCollection"
     THEN [r \in {<<"embedding_bags">>} |-> Class("", "ModuleDict")]
     ELSE IF n = "EmbeddingCollection"
     THEN [r \in {<<"embeddings">>} |-> Class("", "ModuleDict")]
     ELSE IF n = "FeatureProcessedEmbeddingBagCollection"
     THEN [r \in {<<"_embedding_bag_collection">>,
                  <<"_embedding_bag_collection", "embedding_bags">>,
                  <<"_feature_processors">>} |->
             IF r = <<"_embedding_bag_collection">>
             THEN Class(k, "EmbeddingBagCollection")
             ELSE IF r = <<"_feature_processors">>
             THEN Class(k, "PositionWeightedModuleCollection")
             ELSE Class("", "ModuleDict")]
     ELSE IF n = "QuantEmbeddingBagCollection"
     THEN [r \in {<<"embedding_bags">>, <<"tbes">>} |->
             IF r = <<"tbes">> THEN Class("", "ModuleList")
             ELSE Class("", "ModuleDict")]
     ELSE IF n = "QuantEmbeddingCollection"
     THEN [r \in {<<"embeddings">>, <<"tbes">>} |->
             IF r = <<"tbes">> THEN Class("", "ModuleList")
             ELSE Class("", "ModuleDict")]
     ELSE IF n = "QuantFeatureProcessedEmbeddingBagCollection"
     THEN [r \in {<<"_embedding_bag_collection">>,
                  <<"_embedding_bag_collection", "embedding_bags">>,
                  <<"_embedding_bag_collection", "tbes">>,
                  <<"_feature_processors">>} |->
             IF r = <<"_embedding_bag_collection">>
             THEN Class("", "QuantEmbeddingBagCollection")
             ELSE IF r = <<"_feature_processors">>
             THEN Class(k, "PositionWeightedModuleCollection")
             ELSE IF r = <<"_embedding_bag_collection", "tbes">>
             THEN Class("", "ModuleList")
             ELSE Class("", "ModuleDict")]
     ELSE EmptyMap

\* g with the module at n, and all it owns, replaced by a new module of class cls
Replace(g, n, cls) ==
  LET keep == {p \in DOMAIN g : ~(IsPrefix(n, p) /\ p # n)}
      sub == Subtree(cls)
      new == {n \o r : r \in DOMAIN sub}
  IN [p \in keep \cup new |->
        IF p = n THEN cls
        ELSE IF p \in new THEN sub[SubSeq(p, Len(n) + 1, Len(p))]
        ELSE g[p]]

\* a graph with the module of class cls registered at n
WithModule(g, n, cls) ==
  LET sub == Subtree(cls)
      new == {n \o r : r \in DOMAIN sub}
  IN [p \in DOMAIN g \cup {n} \cup new |->
        IF p = n THEN cls
        ELSE IF p \in new THEN sub[SubSeq(p, Len(n) + 1, Len(p))]
        ELSE g[p]]

\* the float models quantize_inference_model is run on
QuantGraph(pkg, sparseEbc, sparseFp, topFp, topEc) ==
  LET g0 == [p \in {<<>>, <<"dense">>} |->
               IF p = <<>> THEN Class("", "Model") ELSE Class("", "Linear")]
      g1 == IF sparseEbc \/ sparseFp
            THEN [p \in DOMAIN g0 \cup {<<"sparse">>} |->
                    IF p = <<"sparse">> THEN Class("", "Sequential") ELSE g0[p]]
            ELSE g0
      g2 == IF sparseEbc
            THEN WithModule(g1, <<"sparse", "ebc">>,
                            Class(pkg, "EmbeddingBagCollection"))
            ELSE g1
      g3 == IF sparseFp
            THEN WithModule(g2, <<"sparse", "fp_ebc">>,
                            Class(pkg, "FeatureProcessedEmbeddingBagCollection"))
            ELSE g2
      g4 == IF topFp
            THEN WithModule(g3, <<"fp_ebc">>,
                            Class(pkg, "FeatureProcessedEmbeddingBagCollection"))
            ELSE g3
  IN IF topEc
     THEN WithModule(g4, <<"ec">>, Class(pkg, "EmbeddingCollection"))
     ELSE g4

\* registration order of the children, depth first: model.named_modules()
Preorder ==
  << <<>>,
     <<"sparse">>,
     <<"sparse", "ebc">>, <<"sparse", "ebc", "embedding_bags">>,
     <<"sparse", "fp_ebc">>,
     <<"sparse", "fp_ebc", "_embedding_bag_collection">>,
     <<"sparse", "fp_ebc", "_embedding_bag_collection", "embedding_bags">>,
     <<"sparse", "fp_ebc", "_feature_processors">>,
     <<"fp_ebc">>,
     <<"fp_ebc", "_embedding_bag_collection">>,
     <<"fp_ebc", "_embedding_bag_collection", "embedding_bags">>,
     <<"fp_ebc", "_feature_processors">>,
     <<"ec">>, <<"ec", "embeddings">>,
     <<"dense">> >>

InGraph(g) == [p \in Range(Preorder) |-> p \in DOMAIN g]

named_modules(g) ==
  LET present == InGraph(g)
      Keep(p) == present[p]
  IN SelectSeq(Preorder, Keep)

\* the mappings a caller passes
QuantizationMappings ==
  { DEFAULT_QUANT_MAPPING,
    EmptyMap,
    [t \in {<<"EmbeddingCollection">>} |-> Class("", "QuantEmbeddingCollection")],
    [t \in {<<"EmbeddingBagCollection">>, FEATURE_PROCESSED_EBC_TYPE} |->
       IF t = FEATURE_PROCESSED_EBC_TYPE
       THEN Class("", "QuantFeatureProcessedEmbeddingBagCollection")
       ELSE Class("", "QuantEmbeddingBagCollection")] }

(***************************************************************************)
(* quantize_inference_model, step by step.                                 *)
(***************************************************************************)
\* fp_module_fqn.rsplit(".", 1): two parts only when the name holds a "."
rsplit(n) ==
  IF Len(n) >= 2 THEN <<SubSeq(n, 1, Len(n) - 1), <<n[Len(n)]>>>> ELSE <<n>>

RegisteredOnModel(parts) == parts[2]

\* lines 378-380: the parent found from the model, and the name registered in it
RegisteredPath(parts) == parts[1] \o parts[2]

\* _quantize_fp_module, lines 362-382: the graph after it, None when the
\* unpacking of line 377 raises
quantize_fp_module(g, fp_module_fqn) ==
  LET parts == rsplit(fp_module_fqn)
  IN IF Len(parts) # 2 THEN None
     ELSE Some(Replace(g, RegisteredPath(parts),
                       Class("", "QuantFeatureProcessedEmbeddingBagCollection")))

StartQuant ==
  /\ fn = "quant" /\ pc = "entry" /\ error = "none"
  /\ packaged \in BOOLEAN
  /\ \E sparseEbc, sparseFp, topFp, topEc \in BOOLEAN :
       model = QuantGraph(IF packaged THEN "<torch_package_0>" ELSE "",
                          sparseEbc, sparseFp, topFp, topEc)
  /\ orig = model
  /\ quantization_mapping \in {None} \cup {Some(m) : m \in QuantizationMappings}
  /\ additional_qconfig_spec_keys = <<>> /\ additional_mapping = EmptyMap
  /\ todo = <<>> /\ swapped = {}

\* lines 359-360 and 384-387
BeginTraversal ==
  /\ fn = "quant" /\ pc = "entry"
  /\ quantization_mapping' =
       IF IsNone(quantization_mapping) THEN Some(DEFAULT_QUANT_MAPPING)
       ELSE quantization_mapping
  /\ todo' = named_modules(model)
  /\ pc' = "traverse"
  /\ UNCHANGED <<fn, model, orig, error, packaged, additional_qconfig_spec_keys,
                 additional_mapping, swapped, shardVars, denseVars>>

\* the module named_modules() yields next is the one of the graph at entry
NextTypename ==
  trim_torch_package_prefix_from_typename(Typename(orig[Head(todo)]))

\* lines 390-392
VisitMapped ==
  /\ fn = "quant" /\ pc = "traverse" /\ todo # <<>>
  /\ NextTypename \in DOMAIN Get(quantization_mapping)
  /\ LET ty == orig[Head(todo)]
     IN /\ additional_qconfig_spec_keys' = Append(additional_qconfig_spec_keys, ty)
        /\ additional_mapping' =
             [c \in DOMAIN additional_mapping \cup {ty} |->
                IF c = ty THEN Get(quantization_mapping)[NextTypename]
                ELSE additional_mapping[c]]
  /\ todo' = Tail(todo)
  /\ UNCHANGED <<fn, pc, model, orig, error, quantization_mapping, packaged,
                 swapped, shardVars, denseVars>>

\* lines 393-395, _quantize_fp_module returning
VisitFeatureProcessed ==
  /\ fn = "quant" /\ pc = "traverse" /\ todo # <<>>
  /\ NextTypename \notin DOMAIN Get(quantization_mapping)
  /\ NextTypename = FEATURE_PROCESSED_EBC_TYPE
  /\ ~IsNone(quantize_fp_module(model, Head(todo)))
  /\ model' = Get(quantize_fp_module(model, Head(todo)))
  /\ swapped' = swapped \cup {Head(todo)}
  /\ todo' = Tail(todo)
  /\ UNCHANGED <<fn, pc, orig, error, quantization_mapping, packaged,
                 additional_qconfig_spec_keys, additional_mapping,
                 shardVars, denseVars>>

\* lines 393-395, _quantize_fp_module raising at line 377
VisitFeatureProcessedRaises ==
  /\ fn = "quant" /\ pc = "traverse" /\ todo # <<>>
  /\ NextTypename \notin DOMAIN Get(quantization_mapping)
  /\ NextTypename = FEATURE_PROCESSED_EBC_TYPE
  /\ IsNone(quantize_fp_module(model, Head(todo)))
  /\ error' = "ValueError"
  /\ pc' = "failed"
  /\ todo' = Tail(todo)
  /\ UNCHANGED <<fn, model, orig, quantization_mapping, packaged,
                 additional_qconfig_spec_keys, additional_mapping, swapped,
                 shardVars, denseVars>>

\* neither branch of lines 390-395
VisitOther ==
  /\ fn = "quant" /\ pc = "traverse" /\ todo # <<>>
  /\ NextTypename \notin DOMAIN Get(quantization_mapping)
  /\ NextTypename # FEATURE_PROCESSED_EBC_TYPE
  /\ todo' = Tail(todo)
  /\ UNCHANGED <<fn, pc, model, orig, error, quantization_mapping, packaged,
                 additional_qconfig_spec_keys, additional_mapping, swapped,
                 shardVars, denseVars>>

\* quantize_embeddings, lines 146-156: the type mapping and the types configured
EmbeddingsMapping(additional) ==
  LET base == Class("", "EmbeddingBagCollection")
  IN [c \in {base} \cup DOMAIN additional |->
        IF c \in DOMAIN additional THEN additional[c]
        ELSE Class("", "QuantEmbeddingBagCollection")]

QconfigSpec(keys) == {Class("", "EmbeddingBagCollection")} \cup Range(keys)

\* quant.quantize_dynamic in place, lines 157-162: every module below the
\* root whose type is configured and mapped is swapped, as one unit
RECURSIVE SwapAll(_, _, _)
SwapAll(g, targets, mapping) ==
  IF targets = {} THEN g
  ELSE LET n == CHOOSE x \in targets : TRUE
       IN SwapAll(Replace(g, n, mapping[g[n]]), targets \ {n}, mapping)

quantize_dynamic(g, keys, mapping) ==
  LET hit == {p \in DOMAIN g : p # <<>> /\ g[p] \in keys /\ g[p] \in DOMAIN mapping}
      top == {p \in hit : ~\E a \in hit : a # p /\ IsPrefix(a, p)}
  IN SwapAll(g, top, mapping)

\* lines 397-411
GenericPass ==
  /\ fn = "quant" /\ pc = "traverse" /\ todo = <<>>
  /\ model' = quantize_dynamic(model, QconfigSpec(additional_qconfig_spec_keys),
                               EmbeddingsMapping(additional_mapping))
  /\ pc' = "done"
  /\ UNCHANGED <<fn, orig, error, quantization_mapping, packaged,
                 additional_qconfig_spec_keys, additional_mapping, todo, swapped,
                 shardVars, denseVars>>

InitQuant == StartQuant /\ IdleShard /\ IdleDense

NextQuant ==
  \/ BeginTraversal
  \/ VisitMapped
  \/ VisitFeatureProcessed
  \/ VisitFeatureProcessedRaises
  \/ VisitOther
  \/ GenericPass

SpecQuant == InitQuant /\ [][NextQuant]_vars

(***************************************************************************)
(* quantize_dense, and the forward calls made on its result.               *)
(***************************************************************************)
InputDtypes == {"float32", "float64", "float16", "bfloat16", "int64"}

\* what a forward call passes: a tensor of a dtype, or something else
InputValues == InputDtypes \cup {"not_a_tensor"}

LoweringDtypes == {"half", "bfloat16", "int8"}

EmbeddingBagCollectionInterface ==
  {"EmbeddingBagCollection", "QuantEmbeddingBagCollection"}

EmbeddingCollectionInterface == {"EmbeddingCollection"}

\* the test of lines 331-335: isinstance of an interface, or exactly a listed type
IsEmbedding(cls, additional) ==
  \/ cls \in EmbeddingBagCollectionInterface
  \/ cls \in EmbeddingCollectionInterface
  \/ \E clazz \in additional : cls = clazz

IsHalfOrBfloat(dt) == dt \in {"half", "bfloat16"}

\* the test of line 336
IsHalf(dt) == dt = "half"

\* Tensor.half() and Module.half(): floating-point dtypes become float16
Half(dt) ==
  IF dt \in {"float32", "float64", "float16", "bfloat16"} THEN "float16" ELSE dt

quantize_feature_float32_only(inputs) ==
  [i \in DOMAIN inputs |->
     IF inputs[i] \in InputDtypes /\ inputs[i] \in {"float32"}
     THEN Half(inputs[i]) ELSE inputs[i]]

\* quantize_feature, lines 116-129
quantize_feature(inputs) ==
  [i \in DOMAIN inputs |->
     IF inputs[i] \in InputDtypes /\ inputs[i] \in {"float32", "float64"}
     THEN Half(inputs[i]) ELSE inputs[i]]

\* the graphs of a predict module: children in registration order
DenseChildren == <<"ebc", "ec", "custom", "custom_sub", "over", "dense">>

DenseClass(p) ==
  IF p = <<>> THEN "Model"
  ELSE IF p = <<"ebc">> THEN "QuantEmbeddingBagCollection"
  ELSE IF p = <<"ec">> THEN "EmbeddingCollection"
  ELSE IF p = <<"custom">> THEN "CustomEmbedding"
  ELSE IF p = <<"custom_sub">> THEN "CustomEmbeddingSubclass"
  ELSE IF p = <<"over">> THEN "Sequential"
  ELSE IF p = <<"over", "ebc">> THEN "EmbeddingBagCollection"
  ELSE "Linear"

DenseGraph(names) ==
  LET ps == {<<>>} \cup {<<n>> : n \in names}
            \cup (IF "over" \in names
                  THEN {<<"over", "ebc">>, <<"over", "linear">>} ELSE {})
  IN [p \in ps |-> DenseClass(p)]

named_children(g) ==
  LET Keep(n) == <<n>> \in DOMAIN g
  IN SelectSeq(DenseChildren, Keep)

StartDense ==
  /\ fn = "dense" /\ pc = "entry" /\ error = "none"
  /\ \E names \in SUBSET Range(DenseChildren) : model = DenseGraph(names)
  /\ orig = model
  /\ dtype \in LoweringDtypes
  /\ additional_embedding_module_type \in {{}, {"CustomEmbedding"}}
  /\ \E emb \in {"float32", "uint8"} :
       params = [p \in DOMAIN model |->
                   IF IsEmbedding(model[p], {"CustomEmbedding"}) THEN emb
                   ELSE "float32"]
  /\ hooks = [p \in DOMAIN model |-> <<>>]
  /\ reassign = EmptyMap /\ children = <<>> /\ call = None

\* lines 325-328
BeginChildren ==
  /\ fn = "dense" /\ pc = "entry"
  /\ children' = named_children(model)
  /\ pc' = "children"
  /\ UNCHANGED <<fn, model, orig, error, dtype, additional_embedding_module_type,
                 reassign, params, hooks, call, shardVars, quantVars>>

\* lines 331-335 false: an embedding module is passed over
SkipEmbedding ==
  /\ fn = "dense" /\ pc = "children" /\ children # <<>>
  /\ IsEmbedding(model[<<Head(children)>>], additional_embedding_module_type)
  /\ children' = Tail(children)
  /\ UNCHANGED <<fn, pc, model, orig, error, dtype,
                 additional_embedding_module_type, reassign, params, hooks, call,
                 shardVars, quantVars>>

\* lines 336-339: mod.half() casts the module and all it owns, in place
LowerChild ==
  /\ fn = "dense" /\ pc = "children" /\ children # <<>>
  /\ ~IsEmbedding(model[<<Head(children)>>], additional_embedding_module_type)
  /\ IsHalf(dtype)
  /\ LET name == Head(children)
     IN /\ params' = [p \in DOMAIN params |->
                        IF IsPrefix(<<name>>, p) THEN Half(params[p]) ELSE params[p]]
        /\ hooks' = [hooks EXCEPT ![<<name>>] = Append(@, "quantize_feature")]
        /\ reassign' = [k \in DOMAIN reassign \cup {name} |->
                          IF k = name THEN model[<<name>>] ELSE reassign[k]]
  /\ children' = Tail(children)
  /\ UNCHANGED <<fn, pc, model, orig, error, dtype,
                 additional_embedding_module_type, call, shardVars, quantVars>>

\* lines 340-343
RaiseUnsupported ==
  /\ fn = "dense" /\ pc = "children" /\ children # <<>>
  /\ ~IsEmbedding(model[<<Head(children)>>], additional_embedding_module_type)
  /\ ~IsHalf(dtype)
  /\ error' = "NotImplementedError"
  /\ pc' = "failed"
  /\ UNCHANGED <<fn, model, orig, dtype, additional_embedding_module_type,
                 reassign, children, params, hooks, call, shardVars, quantVars>>

\* lines 344-346: each lowered module is put back under its key
Reassign ==
  /\ fn = "dense" /\ pc = "children" /\ children = <<>>
  /\ model' = [p \in DOMAIN model |->
                 IF Len(p) = 1 /\ p[1] \in DOMAIN reassign
                 THEN reassign[p[1]] ELSE model[p]]
  /\ pc' = "done"
  /\ UNCHANGED <<fn, orig, error, dtype, additional_embedding_module_type,
                 reassign, children, params, hooks, call, shardVars, quantVars>>

\* a later forward call of a module of the graph: its pre-hooks run on the inputs
Forward ==
  /\ fn = "dense" /\ pc = "done"
  /\ \E p \in DOMAIN model \ {<<>>}, k \in 1..MaxInputs :
       \E inputs \in [1..k -> InputValues] :
          call' = Some([module |-> p, given |-> inputs,
                        received |-> IF hooks[p] = <<>> THEN inputs
                                     ELSE quantize_feature(inputs)])
  /\ UNCHANGED <<fn, pc, model, orig, error, dtype,
                 additional_embedding_module_type, reassign, children, params,
                 hooks, shardVars, quantVars>>

InitDense == StartDense /\ IdleShard /\ IdleQuant

NextDense ==
  \/ BeginChildren
  \/ SkipEmbedding
  \/ LowerChild
  \/ RaiseUnsupported
  \/ Reassign
  \/ Forward

SpecDense == InitDense /\ [][NextDense]_vars

(***************************************************************************)
(* The three entry points together.                                        *)
(***************************************************************************)
Init == InitShard \/ InitQuant \/ InitDense

Next == NextShard \/ NextQuant \/ NextDense

Spec == Init /\ [][Next]_vars

(***************************************************************************)
(* Properties of the rewrites.                                             *)
(***************************************************************************)
\* a module of the graph at entry whose place now holds another module
Replaced(p) == p \in DOMAIN orig /\ p \in DOMAIN model /\ model[p] # orig[p]

\* p lies inside a replaced module
InsideReplaced(p) == \E r \in DOMAIN orig : Replaced(r) /\ IsPrefix(r, p) /\ r # p

\* C3 as stated: after a rewrite the fully-qualified module names of the graph
\* are those before it, and every swapped module is under its old name.
C3_SameNames ==
  pc = "done" =>
     /\ DOMAIN model = DOMAIN orig
     /\ \A s \in swapped : Replaced(s)

\* C3 amended: a rewrite leaves every module name outside the replaced modules
\* as it was and adds none there, and registers every replaced module under
\* its old name in its old parent; names inside a replaced module may change.
C3_NamesPreserved ==
  /\ \A p \in DOMAIN orig : p \in DOMAIN model \/ InsideReplaced(p)
  /\ \A p \in DOMAIN model : p \in DOMAIN orig \/ InsideReplaced(p)
  /\ \A s \in swapped : Replaced(s)

C3_Witness ==
  /\ fn = "quant" /\ pc = "done"
  /\ swapped # {}
  /\ \E p \in DOMAIN orig : Replaced(p) /\ p \notin swapped
  /\ DOMAIN model # DOMAIN orig

\* named_modules() has yielded the module at n
Visited(n) == pc # "entry" /\ n \notin Range(todo)

TypenameAt(n) == trim_torch_package_prefix_from_typename(Typename(orig[n]))

\* C9: every feature-processed module the traversal has reached, at any
\* depth, is already replaced by its quantized equivalent under its name, so
\* before the generic pass; a module whose type name is in the mapping keeps
\* its module until the generic pass and holds the mapped type after it.
C9_FeatureProcessedSwapped ==
  (fn = "quant" /\ pc # "entry") =>
     /\ \A n \in DOMAIN orig :
          (/\ Visited(n)
           /\ TypenameAt(n) = FEATURE_PROCESSED_EBC_TYPE
           /\ TypenameAt(n) \notin DOMAIN Get(quantization_mapping)) =>
             /\ n \in DOMAIN model
             /\ model[n] = Class("", "QuantFeatureProcessedEmbeddingBagCollection")
     /\ \A n \in DOMAIN orig :
          (/\ n # <<>>
           /\ TypenameAt(n) \in DOMAIN Get(quantization_mapping)
           /\ ~\E a \in DOMAIN orig :
                 /\ a # n /\ IsPrefix(a, n) /\ a # <<>>
                 /\ \/ a \in swapped
                    \/ TypenameAt(a) \in DOMAIN Get(quantization_mapping)) =>
             /\ n \in DOMAIN model
             /\ model[n] = IF pc = "done"
                           THEN Get(quantization_mapping)[TypenameAt(n)]
                           ELSE orig[n]

\* the direct children quantize_dense lowers
NonEmbeddingChild(p) ==
  /\ Len(p) = 1
  /\ p \in DOMAIN orig
  /\ orig[p] \notin EmbeddingBagCollectionInterface
  /\ orig[p] \notin EmbeddingCollectionInterface
  /\ orig[p] \notin additional_embedding_module_type

\* C5: quantize_dense raises the unsupported-precision error exactly when
\* the dtype is not half and the predict module has a non-embedding child,
\* before lowering anything; with half it raises nothing.
C5_UnsupportedPrecision ==
  fn = "dense" =>
     /\ dtype = "half" => error = "none"
     /\ (/\ dtype # "half"
         /\ pc \in {"done", "failed"}
         /\ \E p \in DOMAIN orig : NonEmbeddingChild(p)) =>
           /\ pc = "failed"
           /\ error = "NotImplementedError"
     /\ error # "none" =>
           /\ error = "NotImplementedError"
           /\ dtype # "half"
           /\ \E p \in DOMAIN orig : NonEmbeddingChild(p)
           /\ \A p \in DOMAIN hooks : hooks[p] = <<>>
           /\ model = orig

C5_Witness ==
  /\ fn = "dense"
  /\ error = "NotImplementedError"
  /\ dtype = "bfloat16"
  /\ <<"ebc">> \in DOMAIN orig
  /\ <<"custom_sub">> \in DOMAIN orig
  /\ additional_embedding_module_type = {"CustomEmbedding"}
  /\ children = <<"custom_sub">>

FloatingPoint == {"float32", "float64", "float16", "bfloat16"}

IsEmbeddingModule(p) ==
  \/ orig[p] \in EmbeddingBagCollectionInterface
  \/ orig[p] \in EmbeddingCollectionInterface
  \/ orig[p] \in additional_embedding_module_type

\* C10 as stated: after quantize_dense with half, every non-embedding module
\* is half precision and hooked, every floating-point input of a later
\* forward call reaches it as half precision, every other input unchanged,
\* and no embedding module is cast, hooked or replaced.
C10_AllLowered ==
  (fn = "dense" /\ pc = "done" /\ dtype = "half") =>
     /\ \A p \in DOMAIN model \ {<<>>} :
          IF IsEmbeddingModule(p)
          THEN params[p] # "float16" /\ hooks[p] = <<>> /\ model[p] = orig[p]
          ELSE params[p] = "float16" /\ hooks[p] # <<>>
     /\ (~IsNone(call) /\ ~IsEmbeddingModule(Get(call).module)) =>
          \A i \in DOMAIN Get(call).given :
             Get(call).received[i] =
               IF Get(call).given[i] \in FloatingPoint THEN "float16"
               ELSE Get(call).given[i]

\* C10 amended: after quantize_dense with half, every non-embedding direct
\* child is half precision with all it owns, and has the one pre-hook, so a
\* later forward call of it receives each float32 or float64 tensor as half
\* precision and every other input unchanged; no other module is hooked, and
\* the embedding modules that are direct children are neither cast, hooked
\* nor replaced.
C10_DirectChildrenLowered ==
  (fn = "dense" /\ pc = "done" /\ dtype = "half") =>
     /\ \A p \in DOMAIN model \ {<<>>} :
          IF Len(p) = 1 /\ IsEmbeddingModule(p)
          THEN params[p] # "float16" /\ hooks[p] = <<>> /\ model[p] = orig[p]
          ELSE IF Len(p) = 1
          THEN /\ hooks[p] = <<"quantize_feature">>
               /\ model[p] = orig[p]
               /\ \A q \in DOMAIN model :
                     IsPrefix(p, q) => params[q] \in {"float16", "uint8"}
          ELSE hooks[p] = <<>>
     /\ ~IsNone(call) =>
          \A i \in DOMAIN Get(call).given :
             Get(call).received[i] =
               IF /\ NonEmbeddingChild(Get(call).module)
                  /\ Get(call).given[i] \in {"float32", "float64"}
               THEN "float16"
               ELSE Get(call).given[i]

C10_Witness ==
  /\ fn = "dense" /\ pc = "done" /\ dtype = "half"
  /\ ~IsNone(call)
  /\ Get(call).module = <<"over">>
  /\ Get(call).given = <<"float64">>
  /\ Get(call).received = <<"float16">>
  /\ params[<<"over", "ebc">>] = "float16"
  /\ <<"ebc">> \in DOMAIN model

====
